---- MODULE Spec2Model ----
(***************************************************************************)
(* HeroHours attendance tracking: the check-in/check-out state machine of  *)
(* HeroHours/views.py (handle_entry, _process_check_in_out,                *)
(* _handle_bulk_updates) and the admin actions of HeroHours/admin.py,      *)
(* over the Users and ActivityLog tables of HeroHours/models.py.           *)
(*                                                                         *)
(* A request is a process: its position (pc) moves through the database    *)
(* statements of the handler, so that requests interleave exactly where    *)
(* the database lets them.                                                 *)
(***************************************************************************)
EXTENDS Integers, Sequences, FiniteSets, TLC

VARIABLES
  users,     \* the Users table: User_ID -> row
  log,       \* the ActivityLog table, in creation order (oldest first)
  envDEBUG,  \* os.environ['DEBUG'] ("unset" when the variable is absent)
  rowlock,   \* per Users row: the request holding its select_for_update lock
  req,       \* per request: handle_entry's local variables and position
  ops,       \* number of operations started so far (bounds the exploration)
  lastReset, \* the selection and outcome of the last Reset Members action
             \* (a history of the admin's request, kept where it is examined)
  snapshot   \* per request: the rows its bulk queryset returned, while the
             \* request is between that read and its bulk_update

vars == <<users, log, envDEBUG, rowlock, req, ops, lastReset, snapshot>>

----------------------------------------------------------------------------
(* Bounds of the exploration *)

\* timestamps are 0..MaxTime
MaxTime == 1

\* at most MaxOps operations (dispatches, resets, admin edits) are started
MaxOps == 3

Times == 0..MaxTime

\* the dashboard log is studied on logs of at most MaxLog rows
MaxLog == 10

----------------------------------------------------------------------------
(* Data model: models.py *)

\* the members the Users table holds
UserIds == {1, 2}

\* the concurrent requests
Procs == {"p1", "p2"}

\* a null DateTimeField (Last_In / Last_Out have null=True)
NoTime == -1

\* no request holds the row lock
Free == "free"

\* the user of a log entry that resolved to no member (ActivityLog.user null)
NoUser == 0

\* a response that carries no count (the 400 of an empty input, a redirect)
NoCount == -1

\* a Users row as created: Checked_In/Is_Active as given, Total_Seconds 0,
\* Last_In = creation time (auto_now_add), Last_Out null
NewUser(active, checked_in, created) ==
  [active |-> active, checked_in |-> checked_in, total |-> 0,
   last_in |-> created, last_out |-> NoTime]

\* an ActivityLog row
LogEntry(entered, user, operation, status) ==
  [entered |-> entered, user |-> user, operation |-> operation, status |-> status]

----------------------------------------------------------------------------
(* Constants of views.py *)

BULK_CHECK_IN == "-404"
BULK_CHECK_OUT == "+404"
REFRESH_PAGE == {"+00", "+01", "*"}
SEND_TO_SHEETS == "Send"
ADMIN_PANEL == "admin"
LOGOUT == "---"

\* StatusMessages
SUCCESS == "Success"
ERROR == "Error"
USER_NOT_FOUND == "User Not Found"
INVALID_INPUT == "Invalid Input"
INACTIVE_USER == "Inactive User"
CHECK_OUT_STATUS == "Check Out"

\* Operations
OP_CHECK_IN == "Check In"
OP_CHECK_OUT == "Check Out"
OP_NONE == "None"
OP_RESET == "Reset"

----------------------------------------------------------------------------
(* Input handling *)

\* the raw inputs posted to handle_entry
RawInputs ==
  {"", " ", "*", "+00", "+01", "admin", "---", "Send", "abc", "1.5",
   "9", "-123", "999999999", "1", " 2", "2", "+404", "-404"}

\* the unsigned forms of the numbers in the reserved tokens +00 and +404
UnsignedForms ==
  {"0", "404"}

\* str.strip() on the raw inputs
Strip(s) ==
  CASE s = " " -> ""
    [] s = " 2" -> "2"
    [] OTHER -> s

\* str.isdigit() in place of int(): a sign makes the input invalid
IsInt_Digits(s) ==
  s \in {"1", "2", "9", "999999999", "0", "404"}

\* whether int(user_input) succeeds (no ValueError)
IsInt(s) ==
  s \in {"1", "2", "9", "-123", "999999999", "+404", "-404", "+00", "+01",
         "0", "404"}

\* int(user_input), for the inputs it accepts
ParseInt(s) ==
  CASE s = "1" -> 1
    [] s = "2" -> 2
    [] s = "9" -> 9
    [] s = "-123" -> -123
    [] s = "999999999" -> 999999999
    [] s = "+404" -> 404
    [] s = "-404" -> -404
    [] s = "+00" -> 0
    [] s = "+01" -> 1
    [] s = "0" -> 0
    [] s = "404" -> 404

\* str(user.User_ID)
Str(n) ==
  CASE n = 1 -> "1"
    [] n = 2 -> "2"
    [] OTHER -> "?"

\* a dispatcher that parses the number before it looks for the refresh
\* tokens
IsSpecialCommand_AfterParse(s) ==
  s \in (REFRESH_PAGE \ {"+00", "+01"}) \/ s = SEND_TO_SHEETS
    \/ s = ADMIN_PANEL \/ s = LOGOUT

\* a dispatcher that knows the refresh tokens only
IsSpecialCommand_RefreshOnly(s) ==
  s \in REFRESH_PAGE

\* Commands.is_refresh_command and the other tokens of _handle_special_commands
IsSpecialCommand(s) ==
  s \in REFRESH_PAGE \/ s = SEND_TO_SHEETS \/ s = ADMIN_PANEL \/ s = LOGOUT

\* a default of 'True' instead of 'False' for the absent variable
DebugEnabled_DefaultOn ==
  (IF envDEBUG = "unset" THEN "True" ELSE envDEBUG) = "True"

\* os.environ.get('DEBUG', 'False') == 'True'
DebugEnabled == (IF envDEBUG = "unset" THEN "False" ELSE envDEBUG) = "True"

----------------------------------------------------------------------------
(* Per-member arithmetic *)

\* _get_checked_in_count: members with Checked_In and Is_Active
CheckedInCount(us) ==
  Cardinality({m \in UserIds : us[m].checked_in /\ us[m].active})

\* a check-out without the guard for a missing Last_In: the null is used in
\* the subtraction as it is stored
CheckOutFields_NoGuard(u, now) ==
  [u EXCEPT !.total = u.total + (now - u.last_in),
            !.last_out = now,
            !.checked_in = FALSE]

\* a check-out that stamps Last_In with the time of the check-out
CheckOutFields_RestampsLastIn(u, now) ==
  [u EXCEPT !.last_in = now, !.last_out = now, !.checked_in = FALSE]

\* _process_check_in_out, the check-out branch, on the row read under the lock
CheckOutFields(u, now) ==
  LET li == IF u.last_in = NoTime THEN now ELSE u.last_in
  IN [u EXCEPT !.last_in = li,
               !.total = u.total + (now - li),
               !.last_out = now,
               !.checked_in = FALSE]

\* a check-in that starts the member afresh and clears Last_Out
CheckInFields_ClearsLastOut(u, now) ==
  [u EXCEPT !.checked_in = TRUE, !.last_in = now, !.last_out = NoTime]

\* a check-in that does not stamp Last_In
CheckInFields_NoStamp(u, now) ==
  [u EXCEPT !.checked_in = TRUE]

\* _process_check_in_out, the check-in branch
CheckInFields(u, now) ==
  [u EXCEPT !.last_in = now, !.checked_in = TRUE]

\* the branch _process_check_in_out takes on a row
ProcessRow(u, now) ==
  IF u.checked_in THEN CheckOutFields(u, now) ELSE CheckInFields(u, now)

----------------------------------------------------------------------------
(* Bulk transitions: _handle_bulk_updates *)

\* a queryset filtered on Checked_In alone
BulkSelected_IgnoresActive(us, tok) ==
  IF tok = BULK_CHECK_IN
  THEN {m \in UserIds : ~us[m].checked_in}
  ELSE {m \in UserIds : us[m].checked_in}

\* the queryset users_to_update (Meta.ordering is User_ID)
BulkSelected(us, tok) ==
  IF tok = BULK_CHECK_IN
  THEN {m \in UserIds : ~us[m].checked_in /\ us[m].active}
  ELSE {m \in UserIds : us[m].checked_in /\ us[m].active}

\* a bulk check-in whose bulk_update leaves Last_In out of its field list
BulkRow_NoLastIn(u, tok, now) ==
  IF tok = BULK_CHECK_IN
  THEN [u EXCEPT !.checked_in = TRUE]
  ELSE LET li == IF u.last_in = NoTime THEN now ELSE u.last_in
       IN [u EXCEPT !.total = u.total + (now - li),
                    !.last_out = now,
                    !.checked_in = FALSE]

\* the loop body on one row, and the columns bulk_update writes back:
\* Checked_In, Last_In for a check-in; Checked_In, Total_Hours,
\* Total_Seconds, Last_Out for a check-out (Last_In is not written)
BulkRow(u, tok, now) ==
  IF tok = BULK_CHECK_IN
  THEN [u EXCEPT !.checked_in = TRUE, !.last_in = now]
  ELSE LET li == IF u.last_in = NoTime THEN now ELSE u.last_in
       IN [u EXCEPT !.total = u.total + (now - li),
                    !.last_out = now,
                    !.checked_in = FALSE]

\* a set of ids as the sequence a queryset ordered by User_ID yields
RECURSIVE SortedSeq(_)
SortedSeq(S) ==
  IF S = {} THEN <<>>
  ELSE LET m == CHOOSE x \in S : \A y \in S : x <= y
       IN <<m>> \o SortedSeq(S \ {m})

\* the operation the bulk logs carry
BulkOperation(tok) ==
  IF tok = BULK_CHECK_IN THEN OP_CHECK_IN ELSE OP_CHECK_OUT

\* bulk logs that record the token typed instead of the member's id
BulkLogs_EnteredToken(us, tok) ==
  LET ids == SortedSeq(BulkSelected(us, tok))
  IN [i \in 1..Len(ids) |->
        LogEntry(tok, ids[i], BulkOperation(tok), SUCCESS)]

\* updated_logs: one entry per selected row, in queryset order
BulkLogs(us, tok) ==
  LET ids == SortedSeq(BulkSelected(us, tok))
  IN [i \in 1..Len(ids) |->
        LogEntry(Str(ids[i]), ids[i], BulkOperation(tok), SUCCESS)]

\* the table after bulk_update
BulkUsers(us, tok, now) ==
  [m \in UserIds |->
     IF m \in BulkSelected(us, tok) THEN BulkRow(us[m], tok, now) ELSE us[m]]

\* no transaction around the block: what was written before the statement
\* that raised stays written
Atomic_NoRollback(before, after, raised) ==
  after

\* transaction.atomic(): the writes made inside the block are kept when the
\* block ends normally and undone when a statement of it raises.
\* before/after are <<users table, log table>>.
Atomic(before, after, raised) ==
  IF raised THEN before ELSE after

\* the tables after the transaction block of _handle_bulk_updates, where
\* fault names the statement that raises: "none", "update" (bulk_update) or
\* "create" (bulk_create)
BulkTransaction(us, lg, tok, now, fault) ==
  LET us2 == BulkUsers(us, tok, now)
      lg2 == lg \o BulkLogs(us, tok)
      reached == IF fault = "update" THEN <<us, lg>>
                 ELSE IF fault = "create" THEN <<us2, lg>>
                 ELSE <<us2, lg2>>
  IN Atomic(<<us, lg>>, reached, fault # "none")

BulkFaults == {"none", "update", "create"}

\* no queryset has been read
NoSnapshot ==
  [selected |-> {}, rows |-> <<>>]

\* bulk_update writes the listed columns of the objects the loop changed
\* onto the rows as they are now: Checked_In and Last_In for a check-in;
\* Checked_In, Total_Hours, Total_Seconds and Last_Out for a check-out
BulkColumns(cur, new, tok) ==
  IF tok = BULK_CHECK_IN
  THEN [cur EXCEPT !.checked_in = new.checked_in, !.last_in = new.last_in]
  ELSE [cur EXCEPT !.checked_in = new.checked_in, !.total = new.total,
                   !.last_out = new.last_out]

\* the tables after bulk_update and bulk_create of the objects built from
\* the rows `read` earlier in the transaction, written onto the tables as
\* they are now
BulkWriteTransaction(us, lg, read, tok, now, fault) ==
  LET us2 == [m \in UserIds |->
                IF m \in BulkSelected(read, tok)
                THEN BulkColumns(us[m], BulkRow(read[m], tok, now), tok)
                ELSE us[m]]
      lg2 == lg \o BulkLogs(read, tok)
      reached == IF fault = "update" THEN <<us, lg>>
                 ELSE IF fault = "create" THEN <<us2, lg>>
                 ELSE <<us2, lg2>>
  IN Atomic(<<us, lg>>, reached, fault # "none")

----------------------------------------------------------------------------
(* Requests: handle_entry and _process_check_in_out *)

\* a row-shaped placeholder for "no row read yet"
NoRow == NewUser(FALSE, FALSE, NoTime)

\* a JSON or redirect response
Response(http, status, state, count) ==
  [http |-> http, status |-> status, state |-> state, count |-> count]

NoResponse == Response(0, "", "None", NoCount)

\* a request that has not been received
IdleReq ==
  [pc |-> "idle", inp |-> "", now |-> NoTime, count |-> 0, count2 |-> 0,
   uid |-> NoUser, user |-> NoRow, lop |-> OP_NONE, committed |-> FALSE, logged |-> FALSE,
   resp |-> NoResponse]

\* the request returns `r`: its locals die, what is kept is what the request
\* was (input, time, member, operation), whether its transaction committed
\* and its log entry was saved, and the response
Finish(p, rq, r) ==
  req' = [req EXCEPT ![p] =
            [IdleReq EXCEPT !.pc = "done", !.inp = rq.inp, !.now = rq.now,
                            !.uid = rq.uid, !.lop = rq.lop,
                            !.committed = rq.committed,
                            !.logged = rq.logged, !.resp = r]]

\* the response of the `except Exception` handler of handle_entry
ErrorResponse(count) ==
  Response(500, ERROR, "None", count)

\* a request arrives: user_input is read and stripped
Receive(p, raw) ==
  /\ req[p].pc = "idle"
  /\ ops < MaxOps
  /\ ops' = ops + 1

\* empty input: 400, nothing is written
DispatchEmpty(p) ==
  \E raw \in RawInputs :
    /\ Receive(p, raw)
    /\ Strip(raw) = ""
    /\ Finish(p, [req[p] EXCEPT !.inp = Strip(raw)],
              Response(400, ERROR, "None", NoCount))
    /\ UNCHANGED <<users, log, envDEBUG, rowlock, lastReset, snapshot>>

\* _handle_special_commands: a redirect, nothing is written
DispatchSpecial(p) ==
  \E raw \in RawInputs :
    /\ Receive(p, raw)
    /\ Strip(raw) # ""
    /\ IsSpecialCommand(Strip(raw))
    /\ Finish(p, [req[p] EXCEPT !.inp = Strip(raw)],
              Response(302, "", "None", NoCount))
    /\ UNCHANGED <<users, log, envDEBUG, rowlock, lastReset, snapshot>>

\* whether handle_entry hands the input to _handle_bulk_updates
IsBulkCommand(s) ==
  s \in {BULK_CHECK_IN, BULK_CHECK_OUT}

\* the bulk writes wait for the row locks of the rows they update
RowsFree(S) ==
  \A m \in S : rowlock[m] = Free

\* -404 without DEBUG: _handle_bulk_updates returns the redirect at once
DispatchBulkDisabled(p) ==
  \E raw \in RawInputs :
    /\ Receive(p, raw)
    /\ Strip(raw) = BULK_CHECK_IN
    /\ ~DebugEnabled
    /\ \E now \in Times :
         Finish(p, [req[p] EXCEPT !.inp = Strip(raw), !.now = now],
                Response(302, "", "None", NoCount))
    /\ UNCHANGED <<users, log, envDEBUG, rowlock, lastReset, snapshot>>

\* +404, or -404 with DEBUG: the transaction block of _handle_bulk_updates.
\* A statement that raises leaves the block and handle_entry (the call is
\* outside its try), which the web layer answers with a 500.
DispatchBulk(p) ==
  \E raw \in RawInputs :
    LET tok == Strip(raw)
    IN /\ Receive(p, raw)
       /\ IsBulkCommand(tok)
       /\ tok = BULK_CHECK_IN => DebugEnabled
       /\ RowsFree(BulkSelected(users, tok))
       /\ \E now \in Times, fault \in BulkFaults :
            LET out == BulkTransaction(users, log, tok, now, fault)
            IN /\ users' = out[1]
               /\ log' = out[2]
               /\ Finish(p, [req[p] EXCEPT !.inp = tok, !.now = now],
                         IF fault = "none"
                         THEN Response(302, "", "None", NoCount)
                         ELSE Response(500, "exception", "None", NoCount))
       /\ UNCHANGED <<envDEBUG, rowlock, lastReset, snapshot>>

\* +404, or -404 with DEBUG, statement by statement: the transaction block
\* is entered and the loop evaluates the queryset (a plain SELECT, no lock)
BulkRead(p) ==
  \E raw \in RawInputs :
    LET tok == Strip(raw)
    IN /\ Receive(p, raw)
       /\ IsBulkCommand(tok)
       /\ tok = BULK_CHECK_IN => DebugEnabled
       /\ \E now \in Times :
            req' = [req EXCEPT ![p] =
                      [req[p] EXCEPT !.pc = "bulk", !.inp = tok, !.now = now]]
       /\ snapshot' = [snapshot EXCEPT ![p] =
                         [selected |-> BulkSelected(users, tok), rows |-> users]]
       /\ UNCHANGED <<users, log, envDEBUG, rowlock, lastReset>>

\* bulk_update (which waits for the row locks of the rows it updates),
\* bulk_create and the end of the transaction block
BulkWrite(p) ==
  /\ req[p].pc = "bulk"
  /\ RowsFree(snapshot[p].selected)
  /\ \E fault \in BulkFaults :
       LET out == BulkWriteTransaction(users, log, snapshot[p].rows,
                                       req[p].inp, req[p].now, fault)
       IN /\ users' = out[1]
          /\ log' = out[2]
          /\ Finish(p, req[p],
                    IF fault = "none"
                    THEN Response(302, "", "None", NoCount)
                    ELSE Response(500, "exception", "None", NoCount))
  /\ snapshot' = [snapshot EXCEPT ![p] = NoSnapshot]
  /\ UNCHANGED <<envDEBUG, rowlock, ops, lastReset>>

\* a dispatcher without the early return for empty input
IsMemberInput_EmptyAllowed(s) ==
  ~IsSpecialCommand(s) /\ ~IsBulkCommand(s)

\* the input goes on to the member path of handle_entry
IsMemberInput(s) ==
  s # "" /\ ~IsSpecialCommand(s) /\ ~IsBulkCommand(s)

\* log.save() on a path that wrote nothing else: the entry is appended, or
\* the statement raises and the except handler answers 500
SaveLogAndFinish(p, rq, entry, r, saved) ==
  IF saved
  THEN /\ log' = Append(log, entry)
       /\ Finish(p, [rq EXCEPT !.logged = TRUE], r)
  ELSE /\ log' = log
       /\ Finish(p, rq, ErrorResponse(rq.count))

\* the log object saved with the status it was constructed with
InvalidInputLog_StatusNotSet(s) ==
  LogEntry(s, NoUser, OP_NONE, ERROR)

\* the log object of handle_entry (entered = user_input, operation None, no
\* user) with the status the ValueError branch sets
InvalidInputLog(s) ==
  LogEntry(s, NoUser, OP_NONE, INVALID_INPUT)

\* the log object with log.user = None and the status of the not-found branch
NotFoundLog(s) ==
  LogEntry(s, NoUser, OP_NONE, USER_NOT_FOUND)

\* int(user_input) raises ValueError: an Invalid Input log entry
DispatchInvalid(p) ==
  \E raw \in RawInputs :
    LET s == Strip(raw)
    IN /\ Receive(p, raw)
       /\ IsMemberInput(s)
       /\ ~IsInt(s)
       /\ \E now \in Times, saved \in BOOLEAN :
            LET rq == [req[p] EXCEPT !.inp = s, !.now = now,
                                     !.count = CheckedInCount(users)]
            IN SaveLogAndFinish(p, rq, InvalidInputLog(s),
                                Response(200, INVALID_INPUT, "None", rq.count),
                                saved)
       /\ UNCHANGED <<users, envDEBUG, rowlock, lastReset, snapshot>>

\* the input raw parses to an integer and no Users row has the id: a User
\* Not Found log entry
NotFoundOf(p, raw) ==
  LET s == Strip(raw)
  IN /\ Receive(p, raw)
     /\ IsMemberInput(s)
     /\ IsInt(s)
     /\ ParseInt(s) \notin UserIds
     /\ \E now \in Times, saved \in BOOLEAN :
          LET rq == [req[p] EXCEPT !.inp = s, !.now = now,
                                   !.count = CheckedInCount(users)]
          IN SaveLogAndFinish(p, rq, NotFoundLog(s),
                              Response(200, USER_NOT_FOUND, "None", rq.count),
                              saved)
     /\ UNCHANGED <<users, envDEBUG, rowlock, lastReset, snapshot>>

DispatchNotFound(p) ==
  \E raw \in RawInputs : NotFoundOf(p, raw)

\* the same path for the unsigned forms of the reserved numbers
DispatchUnsigned(p) ==
  \E raw \in UnsignedForms : NotFoundOf(p, raw)

\* a member path without the early return for inactive users
IsActive_NoCheck(u) ==
  TRUE

\* `user.Is_Active` on the row handle_entry read (before the lock)
IsActive(u) ==
  u.active

\* the log object saved with the status it was constructed with
InactiveLog_StatusNotSet(s, id) ==
  LogEntry(s, id, OP_NONE, ERROR)

\* the log object as the inactive branch saves it: log.user is the member,
\* operation None, status Inactive User
InactiveLog(s, id) ==
  LogEntry(s, id, OP_NONE, INACTIVE_USER)

\* the row read before the lock is inactive: an Inactive User log entry
DispatchInactive(p) ==
  \E raw \in RawInputs :
    LET s == Strip(raw)
        id == ParseInt(s)
    IN /\ Receive(p, raw)
       /\ IsMemberInput(s)
       /\ IsInt(s)
       /\ ParseInt(s) \in UserIds
       /\ ~IsActive(users[id])
       /\ \E now \in Times, saved \in BOOLEAN :
            LET rq == [req[p] EXCEPT !.inp = s, !.now = now, !.uid = id,
                                     !.user = users[id],
                                     !.count = CheckedInCount(users)]
            IN SaveLogAndFinish(p, rq, InactiveLog(s, id),
                                Response(200, INACTIVE_USER, "None", rq.count),
                                saved)
       /\ UNCHANGED <<users, envDEBUG, rowlock, lastReset, snapshot>>

\* the row read before the lock is active: _process_check_in_out goes on to
\* its transaction block
DispatchMember(p) ==
  \E raw \in RawInputs :
    LET s == Strip(raw)
        id == ParseInt(s)
    IN /\ Receive(p, raw)
       /\ IsMemberInput(s)
       /\ IsInt(s)
       /\ ParseInt(s) \in UserIds
       /\ IsActive(users[id])
       /\ \E now \in Times :
            req' = [req EXCEPT ![p] =
                      [req[p] EXCEPT !.pc = "atomic", !.inp = s, !.now = now,
                                     !.uid = id, !.user = users[id],
                                     !.count = CheckedInCount(users)]]
       /\ UNCHANGED <<users, log, envDEBUG, rowlock, lastReset, snapshot>>

\* select_for_update().get(pk): waits for the row lock
LockGranted(p, m) ==
  rowlock[m] = Free

\* working on the row handle_entry read before the lock
RowUnderLock_Stale(p, m) ==
  req[p].user

\* the row _process_check_in_out works on: the one read under the lock
RowUnderLock(p, m) ==
  users[m]

\* a count left as it was fetched
NewCount_Unchanged(count, checked_in) ==
  count

\* count2: the fetched count, one less for a check-out, one more for a
\* check-in
NewCount(count, checked_in) ==
  IF checked_in THEN count - 1 ELSE count + 1

\* select_for_update().get(pk) and the branch taken on the row it returns;
\* the new field values are set on the local object
LockRow(p) ==
  LET m == req[p].uid
      u == RowUnderLock(p, m)
  IN /\ req[p].pc = "atomic"
     /\ LockGranted(p, m)
     /\ rowlock' = [rowlock EXCEPT ![m] = p]
     /\ req' = [req EXCEPT ![p] =
                  [req[p] EXCEPT !.pc = "locked",
                                 !.user = ProcessRow(u, req[p].now),
                                 !.count2 = NewCount(req[p].count,
                                                     u.checked_in),
                                 !.lop = IF u.checked_in THEN OP_CHECK_OUT
                                         ELSE OP_CHECK_IN]]
     /\ UNCHANGED <<users, log, envDEBUG, ops, lastReset, snapshot>>

\* user.save() and the end of the transaction block: the row is written and
\* committed, the lock released
SaveUser(p) ==
  LET m == req[p].uid
  IN /\ req[p].pc = "locked"
     /\ users' = [users EXCEPT ![m] = req[p].user]
     /\ rowlock' = [rowlock EXCEPT ![m] = Free]
     /\ req' = [req EXCEPT ![p] =
                  [req[p] EXCEPT !.pc = "committed", !.committed = TRUE]]
     /\ UNCHANGED <<log, envDEBUG, ops, lastReset, snapshot>>

\* an except handler that runs the transaction block again instead of
\* answering
SaveUserFails_Retries(p) ==
  LET m == req[p].uid
  IN /\ req[p].pc = "locked"
     /\ rowlock' = [rowlock EXCEPT ![m] = Free]
     /\ req' = [req EXCEPT ![p] = [req[p] EXCEPT !.pc = "atomic"]]
     /\ UNCHANGED <<users, log, envDEBUG, ops, lastReset, snapshot>>

\* user.save() raises: the transaction rolls back, the lock is released and
\* the except handler of handle_entry answers 500
SaveUserFails(p) ==
  LET m == req[p].uid
  IN /\ req[p].pc = "locked"
     /\ rowlock' = [rowlock EXCEPT ![m] = Free]
     /\ Finish(p, req[p], ErrorResponse(req[p].count))
     /\ UNCHANGED <<users, log, envDEBUG, ops, lastReset, snapshot>>

\* the log object saved with the status it was constructed with
SuccessLog_StatusNotSet(rq) ==
  LogEntry(rq.inp, rq.uid, rq.lop, ERROR)

\* the log object as the transaction block leaves it: log.user is the
\* member, operation as set in the branch taken, status Success
SuccessLog(rq) ==
  LogEntry(rq.inp, rq.uid, rq.lop, SUCCESS)

\* log.save() after the transaction block, then the response
SaveLog(p) ==
  LET rq == req[p]
      checkout == rq.lop = OP_CHECK_OUT
  IN /\ rq.pc = "committed"
     /\ log' = Append(log, SuccessLog(rq))
     /\ Finish(p, [rq EXCEPT !.logged = TRUE],
               Response(200, IF checkout THEN CHECK_OUT_STATUS ELSE SUCCESS,
                        IF checkout THEN "False" ELSE "True", rq.count2))
     /\ UNCHANGED <<users, envDEBUG, rowlock, ops, lastReset, snapshot>>

\* log.save() raises after the transaction committed: 500
SaveLogFails(p) ==
  /\ req[p].pc = "committed"
  /\ Finish(p, req[p], ErrorResponse(req[p].count))
  /\ UNCHANGED <<users, log, envDEBUG, rowlock, ops, lastReset, snapshot>>

\* the response has been sent; the worker takes the next request
Return(p) ==
  /\ req[p].pc = "done"
  /\ req' = [req EXCEPT ![p] = IdleReq]
  /\ UNCHANGED <<users, log, envDEBUG, rowlock, ops, lastReset, snapshot>>

----------------------------------------------------------------------------
(* Admin: the reset action and the member change form of admin.py *)

\* the Reset entry created before the implicit check-out is looked at
ResetRowLogs_ResetFirst(u, m) ==
  <<LogEntry("", m, OP_RESET, SUCCESS)>>
    \o (IF u.checked_in THEN <<LogEntry("", m, OP_CHECK_OUT, SUCCESS)>> ELSE <<>>)

\* the log entries reset appends for one row: a Check Out entry first when
\* the row is checked in, then the Reset entry (entered is left empty)
ResetRowLogs(u, m) ==
  (IF u.checked_in THEN <<LogEntry("", m, OP_CHECK_OUT, SUCCESS)>> ELSE <<>>)
    \o <<LogEntry("", m, OP_RESET, SUCCESS)>>

\* updated_logs of reset, over the selected rows in queryset order
RECURSIVE ResetLogs(_, _)
ResetLogs(us, ids) ==
  IF ids = <<>> THEN <<>>
  ELSE ResetRowLogs(us[Head(ids)], Head(ids)) \o ResetLogs(us, Tail(ids))

\* a reset whose bulk_update leaves Last_Out out of its field list
ResetRow_KeepsLastOut(u) ==
  [u EXCEPT !.checked_in = FALSE, !.total = 0, !.last_in = NoTime]

\* the fields reset sets on a row
ResetRow(u) ==
  [u EXCEPT !.checked_in = FALSE, !.total = 0,
            !.last_in = NoTime, !.last_out = NoTime]

\* a reset that starts the log of the batch afresh
ResetTransaction_ClearsHistory(us, lg, S, fault) ==
  LET us2 == [m \in UserIds |-> IF m \in S THEN ResetRow(us[m]) ELSE us[m]]
  IN IF fault = "none" THEN <<us2, ResetLogs(us, SortedSeq(S))>> ELSE <<us, lg>>

\* the tables after the transaction block of reset
ResetTransaction(us, lg, S, fault) ==
  LET us2 == [m \in UserIds |-> IF m \in S THEN ResetRow(us[m]) ELSE us[m]]
      lg2 == lg \o ResetLogs(us, SortedSeq(S))
      reached == IF fault = "update" THEN <<us, lg>>
                 ELSE IF fault = "create" THEN <<us2, lg>>
                 ELSE <<us2, lg2>>
  IN Atomic(<<us, lg>>, reached, fault # "none")

\* no Reset Members action has run yet
NoReset ==
  [selected |-> {}, fault |-> "none", op |-> 0]

\* reset on the queryset S, where fault names the statement that raises;
\* a statement that raises leaves the action, which the admin site answers
\* with a 500
ResetSelected(S, fault) ==
  LET out == ResetTransaction(users, log, S, fault)
  IN /\ ops < MaxOps
     /\ ops' = ops + 1
     /\ RowsFree(S)
     /\ users' = out[1]
     /\ log' = out[2]
     /\ UNCHANGED <<envDEBUG, rowlock, req, snapshot>>

\* the querysets the admin can select
Selections ==
  (SUBSET UserIds) \ {{}}

\* the admin action Reset Members on the selected rows
Reset ==
  \E S \in Selections, fault \in BulkFaults :
    /\ ResetSelected(S, fault)
    /\ UNCHANGED lastReset

\* the same action, with its selection and outcome kept for examination
ResetRecorded ==
  \E S \in Selections, fault \in BulkFaults :
    /\ ResetSelected(S, fault)
    /\ lastReset' = [selected |-> S, fault |-> fault, op |-> ops + 1]

\* the rows whose lock request p holds
HeldBy(p) ==
  {m \in UserIds : rowlock[m] = p}

\* bulk_update of reset writes Checked_In, Total_Hours, Total_Seconds,
\* Last_Out and Last_In of the objects the loop changed onto the rows as
\* they are now
ResetColumns(cur, new) ==
  [cur EXCEPT !.checked_in = new.checked_in, !.total = new.total,
              !.last_in = new.last_in, !.last_out = new.last_out]

\* the tables after bulk_update and bulk_create of reset, for the rows
\* `read` under their locks, written onto the tables as they are now
ResetWriteTransaction(us, lg, read, S, fault) ==
  LET us2 == [m \in UserIds |->
                IF m \in S THEN ResetColumns(us[m], ResetRow(read[m]))
                ELSE us[m]]
      lg2 == lg \o ResetLogs(read, SortedSeq(S))
      reached == IF fault = "update" THEN <<us, lg>>
                 ELSE IF fault = "create" THEN <<us2, lg>>
                 ELSE <<us2, lg2>>
  IN Atomic(<<us, lg>>, reached, fault # "none")

\* The reset action served by worker p, statement by statement.
\* The action is posted with the queryset S and opens its transaction.
ResetBegin(p) ==
  \E S \in Selections :
    /\ Receive(p, "")
    /\ req' = [req EXCEPT ![p] = [req[p] EXCEPT !.pc = "reset"]]
    /\ snapshot' = [snapshot EXCEPT ![p] = [selected |-> S, rows |-> users]]
    /\ UNCHANGED <<users, log, envDEBUG, rowlock, lastReset>>

\* the rows of the queryset the SELECT ... FOR UPDATE may lock next: it
\* takes the row locks one row after the other in the order of the
\* changelist, which the admin chooses
ResetNextRows(p) ==
  snapshot[p].selected \ HeldBy(p)

\* a queryset evaluated when the action starts, before any lock is held
RowRead_AtStart(p, m) ==
  snapshot[p].rows[m]

\* the row the loop of reset works on: the one read once its lock is held
RowRead(p, m) ==
  users[m]

\* the iteration of queryset.select_for_update() reaches a row: its lock is
\* waited for and the row is read as it is then
ResetLockRow(p) ==
  \E m \in ResetNextRows(p) :
    /\ req[p].pc = "reset"
    /\ LockGranted(p, m)
    /\ rowlock' = [rowlock EXCEPT ![m] = p]
    /\ snapshot' = [snapshot EXCEPT ![p].rows[m] = RowRead(p, m)]
    /\ UNCHANGED <<users, log, envDEBUG, req, ops, lastReset>>

\* the locks of request p given back at the end of its transaction
Released(p) ==
  [m \in UserIds |-> IF rowlock[m] = p THEN Free ELSE rowlock[m]]

\* all rows are locked: the loop, bulk_update, bulk_create and the end of
\* the transaction block; a statement that raises rolls the block back and
\* the admin site answers 500
ResetCommit(p) ==
  /\ req[p].pc = "reset"
  /\ ResetNextRows(p) = {}
  /\ \E fault \in BulkFaults :
       LET out == ResetWriteTransaction(users, log, snapshot[p].rows,
                                        snapshot[p].selected, fault)
       IN /\ users' = out[1]
          /\ log' = out[2]
          /\ Finish(p, req[p],
                    IF fault = "none"
                    THEN Response(302, "", "None", NoCount)
                    ELSE Response(500, "exception", "None", NoCount))
  /\ rowlock' = Released(p)
  /\ snapshot' = [snapshot EXCEPT ![p] = NoSnapshot]
  /\ UNCHANGED <<envDEBUG, ops, lastReset>>

\* request p waits for a row whose holder waits for a row p holds: a wait
\* the database cannot satisfy
WaitsInCycle(p) ==
  /\ req[p].pc = "reset"
  /\ \E q \in Procs \ {p} :
       /\ req[q].pc = "reset"
       /\ ResetNextRows(p) # {}
       /\ ResetNextRows(p) \subseteq HeldBy(q)
       /\ ResetNextRows(q) # {}
       /\ ResetNextRows(q) \subseteq HeldBy(p)

\* the database ends a wait it cannot satisfy by making the statement
\* raise: the transaction block rolls back, its locks are given back and
\* the exception leaves the action (500)
ResetLockFails(p) ==
  /\ WaitsInCycle(p)
  /\ Finish(p, req[p], Response(500, "exception", "None", NoCount))
  /\ rowlock' = Released(p)
  /\ snapshot' = [snapshot EXCEPT ![p] = NoSnapshot]
  /\ UNCHANGED <<users, log, envDEBUG, ops, lastReset>>

\* the reset action as worker p serves it
ResetRequest(p) ==
  \/ ResetBegin(p)
  \/ ResetLockRow(p)
  \/ ResetCommit(p)
  \/ ResetLockFails(p)

\* on_delete=CASCADE of ActivityLog.user: the log rows that reference the
\* deleted member are deleted with it
CascadeDelete(lg, m) ==
  SelectSeq(lg, LAMBDA entry : entry.user # m)

\* the admin deletes member m (the delete view of the admin site) while no
\* request for m is being served; the row that is gone is shown by the
\* placeholder NoRow, which no lookup returns
DeleteMember ==
  \E m \in UserIds :
    /\ ops < MaxOps
    /\ ops' = ops + 1
    /\ users[m] # NoRow
    /\ RowsFree({m})
    /\ \A p \in Procs : req[p].uid = m => req[p].pc \in {"idle", "done"}
    /\ users' = [users EXCEPT ![m] = NoRow]
    /\ log' = CascadeDelete(log, m)
    /\ UNCHANGED <<envDEBUG, rowlock, req, lastReset, snapshot>>

\* the member change form: Is_Active and Checked_In are editable
AdminChange ==
  \E m \in UserIds, active \in BOOLEAN, checked_in \in BOOLEAN :
    /\ ops < MaxOps
    /\ ops' = ops + 1
    /\ RowsFree({m})
    /\ <<active, checked_in>> # <<users[m].active, users[m].checked_in>>
    /\ users' = [users EXCEPT ![m].active = active, ![m].checked_in = checked_in]
    /\ UNCHANGED <<log, envDEBUG, rowlock, req, lastReset, snapshot>>

----------------------------------------------------------------------------
(* Specifications *)

\* members as added through the roster import or the admin: active, checked
\* out, created at time 0
InitUsers ==
  [m \in UserIds |-> NewUser(TRUE, FALSE, 0)]

InitRest ==
  /\ log = <<>>
  /\ envDEBUG \in {"True", "False", "unset"}
  /\ rowlock = [m \in UserIds |-> Free]
  /\ req = [p \in Procs |-> IdleReq]
  /\ ops = 0
  /\ lastReset = NoReset
  /\ snapshot = [p \in Procs |-> NoSnapshot]

Init ==
  /\ users = InitUsers
  /\ InitRest

\* the steps of a request for a member id
MemberRequest(p) ==
  \/ DispatchInactive(p)
  \/ DispatchMember(p)
  \/ LockRow(p)
  \/ SaveUser(p)
  \/ SaveUserFails(p)
  \/ SaveLog(p)
  \/ SaveLogFails(p)

\* the steps of a request for a bulk token
BulkRequest(p) ==
  \/ DispatchBulkDisabled(p)
  \/ DispatchBulk(p)

\* tokens given to the bulk management command: the two bulk tokens, the
\* unsigned number, a member id, a word and the empty string
CommandTokens ==
  {BULK_CHECK_OUT, BULK_CHECK_IN, "404", "1", "abc", ""}

\* manage.py bulk <token> <time>, run by process p: Command.handle passes
\* the token and the time as given to _handle_bulk_updates and prints
\* success, or the error when the call raises
BulkCommand(p) ==
  \E tok \in CommandTokens :
    /\ Receive(p, tok)
    /\ RowsFree(BulkSelected(users, tok))
    /\ \E now \in Times, fault \in BulkFaults :
         LET disabled == tok = BULK_CHECK_IN /\ ~DebugEnabled
             out == IF disabled THEN <<users, log>>
                    ELSE BulkTransaction(users, log, tok, now, fault)
         IN /\ users' = out[1]
            /\ log' = out[2]
            /\ Finish(p, [req[p] EXCEPT !.inp = tok, !.now = now],
                      IF disabled \/ fault = "none"
                      THEN Response(0, "Successfully executed bulk command",
                                    "None", NoCount)
                      ELSE Response(0, "Error executing command",
                                    "None", NoCount))
    /\ UNCHANGED <<envDEBUG, rowlock, lastReset, snapshot>>

\* the requests that end without reaching a member
InputRequest(p) ==
  \/ DispatchEmpty(p)
  \/ DispatchSpecial(p)
  \/ DispatchInvalid(p)
  \/ DispatchNotFound(p)

\* Attendance: one worker serving member and bulk requests one at a time,
\* with the admin acting in between its statements
Next ==
  \/ MemberRequest("p1")
  \/ BulkRequest("p1")
  \/ Return("p1")
  \/ Reset
  \/ AdminChange

Spec == Init /\ [][Next]_vars

\* the steps of a request for the id of an active member
MemberTransition(p) ==
  \/ DispatchMember(p)
  \/ LockRow(p)
  \/ SaveUser(p)
  \/ SaveUserFails(p)
  \/ SaveLog(p)
  \/ SaveLogFails(p)

\* Two workers, each serving one request for a member id; member 1 starts
\* checked out and member 2 checked in
RaceUsers ==
  [m \in UserIds |-> NewUser(TRUE, m = 2, 0)]

InitRace ==
  /\ users = RaceUsers
  /\ InitRest

NextRace ==
  \E p \in Procs :
    \/ DispatchMember(p)
    \/ LockRow(p)
    \/ SaveUser(p)
    \/ SaveUserFails(p)
    \/ SaveLog(p)
    \/ SaveLogFails(p)

SpecRace == InitRace /\ [][NextRace]_vars

\* A caller that dispatches a member id and, once answered, dispatches
\* again (the second request is p2's); member m starts checked out with m
\* seconds on the clock
SessionUsers ==
  [m \in UserIds |-> [NewUser(TRUE, FALSE, 0) EXCEPT !.total = m]]

InitSession ==
  /\ users = SessionUsers
  /\ InitRest

NextSession ==
  \/ MemberTransition("p1")
  \/ (req["p1"].pc = "done" /\ MemberTransition("p2"))

SpecSession == InitSession /\ [][NextSession]_vars

\* A bulk request (p1), statement by statement, beside a request for a
\* member id (p2); member 1 starts checked out and member 2 checked in
NextBulkRace ==
  \/ BulkRead("p1")
  \/ BulkWrite("p1")
  \/ MemberTransition("p2")

SpecBulkRace == InitRace /\ [][NextBulkRace]_vars

\* Two workers, each serving one request (a single transition, a bulk
\* transition or a reset), statement by statement
NextLive ==
  \E p \in Procs :
    \/ MemberTransition(p)
    \/ BulkRead(p)
    \/ BulkWrite(p)
    \/ ResetRequest(p)

\* Scheduling: a worker that can run its next statement does so; a
\* statement that waits for row locks is served once the locks are given
\* back (the lock queue), and a wait in a cycle is ended by the database
Fairness ==
  \A p \in Procs :
    /\ SF_vars(LockRow(p))
    /\ WF_vars(SaveUser(p) \/ SaveUserFails(p))
    /\ WF_vars(SaveLog(p) \/ SaveLogFails(p))
    /\ SF_vars(BulkWrite(p))
    /\ SF_vars(ResetLockRow(p))
    /\ WF_vars(ResetCommit(p))
    /\ WF_vars(ResetLockFails(p))

SpecLive == InitRace /\ [][NextLive]_vars /\ Fairness

\* A reset (p1), statement by statement, beside a request for a member id
\* (p2); member 1 starts checked out and member 2 checked in
NextResetRace ==
  \/ ResetBegin("p1")
  \/ ResetLockRow("p1")
  \/ ResetCommit("p1")
  \/ MemberTransition("p2")

SpecResetRace == InitRace /\ [][NextResetRace]_vars

\* the bulk write and the reset with no statement raising
BulkWriteOk(p) ==
  BulkWrite(p) /\ req'[p].resp.http = 302

ResetCommitOk(p) ==
  ResetCommit(p) /\ req'[p].resp.http = 302

\* Two workers serving single transitions, bulk transitions and resets,
\* statement by statement, with no storage fault; every member starts
\* checked out and the log empty
NextNoFault ==
  \E p \in Procs :
    \/ DispatchMember(p)
    \/ LockRow(p)
    \/ SaveUser(p)
    \/ SaveLog(p)
    \/ BulkRead(p)
    \/ BulkWriteOk(p)
    \/ ResetBegin(p)
    \/ ResetLockRow(p)
    \/ ResetCommitOk(p)
    \/ Return(p)

SpecNoFault == Init /\ [][NextNoFault]_vars

\* A worker serving member requests (p1) and an operator running the bulk
\* management command (p2)
NextCommand ==
  \/ MemberTransition("p1")
  \/ Return("p1")
  \/ BulkCommand("p2")
  \/ Return("p2")

SpecCommand == Init /\ [][NextCommand]_vars

\* One worker serving the reserved tokens and the numbers they hold
NextTokens ==
  \/ DispatchSpecial("p1")
  \/ BulkRequest("p1")
  \/ DispatchUnsigned("p1")
  \/ MemberTransition("p1")
  \/ Return("p1")

SpecTokens == Init /\ [][NextTokens]_vars

\* The core operations alone: single transitions, bulk transitions and
\* resets, with no edit on the change form
NextCore ==
  \/ MemberTransition("p1")
  \/ BulkRequest("p1")
  \/ Return("p1")
  \/ Reset

SpecCore == Init /\ [][NextCore]_vars

\* Single and bulk transitions of one worker, with the admin deleting
\* members
NextDelete ==
  \/ MemberTransition("p1")
  \/ BulkRequest("p1")
  \/ Return("p1")
  \/ DeleteMember

SpecDelete == Init /\ [][NextDelete]_vars

\* the dashboard shows this many log rows
DASHBOARD_LOG_ROWS == 9

\* an ActivityLog row with its timestamp column (auto_now_add: the clock at
\* the time the row is saved)
Stamped(entry, t) ==
  [entered |-> entry.entered, user |-> entry.user,
   operation |-> entry.operation, status |-> entry.status, timestamp |-> t]

\* row i comes before row j in ORDER BY timestamp DESC; rows with equal
\* timestamps come in an order the database chooses (here: one of by
\* creation, newest first or oldest first)
ComesBefore(lg, i, j, tiesNewestFirst) ==
  \/ lg[i].timestamp > lg[j].timestamp
  \/ /\ lg[i].timestamp = lg[j].timestamp
     /\ IF tiesNewestFirst THEN i > j ELSE i < j

\* Meta.ordering = ['-timestamp']: the rows of the log in queryset order
OrderByTimestampDesc(lg, tiesNewestFirst) ==
  LET rank(i) == Cardinality({j \in 1..Len(lg) :
                               ComesBefore(lg, j, i, tiesNewestFirst)}) + 1
  IN [k \in 1..Len(lg) |->
        lg[CHOOSE i \in 1..Len(lg) : rank(i) = k]]

\* the first `limit` rows of a queryset
Slice(rows, limit) ==
  SubSeq(rows, 1, IF Len(rows) < limit THEN Len(rows) ELSE limit)

\* a log row is saved by one of the operations (here alternately a Check
\* In and a Check Out of member 1), between two reads of the dashboard;
\* its timestamp is the clock at that time
CreateLog ==
  \E t \in Times :
    LET op == IF Len(log) % 2 = 0 THEN OP_CHECK_IN ELSE OP_CHECK_OUT
    IN /\ Len(log) < MaxLog
       /\ \A p \in Procs : req[p].pc = "idle"
       /\ log' = Append(log, Stamped(LogEntry("1", 1, op, SUCCESS), t))
       /\ UNCHANGED <<users, envDEBUG, rowlock, req, ops, lastReset, snapshot>>

\* index: local_log_entries is the log queryset sliced [:9]; the rows are
\* kept in snapshot as the template receives them
Index(p) ==
  \E tiesNewestFirst \in BOOLEAN :
    /\ req[p].pc = "idle"
    /\ Finish(p, [req[p] EXCEPT !.inp = "index"], Response(200, "", "None",
                                                       CheckedInCount(users)))
    /\ snapshot' = [snapshot EXCEPT ![p] =
                      [selected |-> {},
                       rows |-> Slice(OrderByTimestampDesc(log, tiesNewestFirst),
                                      DASHBOARD_LOG_ROWS)]]
    /\ UNCHANGED <<users, log, envDEBUG, rowlock, ops, lastReset>>

\* the page has been rendered; the worker takes the next request
IndexReturn(p) ==
  /\ req[p].pc = "done"
  /\ req' = [req EXCEPT ![p] = IdleReq]
  /\ snapshot' = [snapshot EXCEPT ![p] = NoSnapshot]
  /\ UNCHANGED <<users, log, envDEBUG, rowlock, ops, lastReset>>

\* The dashboard read by one worker while log rows are being created
NextDashboard ==
  \/ CreateLog
  \/ Index("p1")
  \/ IndexReturn("p1")

SpecDashboard == Init /\ [][NextDashboard]_vars

\* The input paths of handle_entry that reach no member, between bulk
\* transitions: one worker, no admin
NextInput ==
  \/ InputRequest("p1")
  \/ BulkRequest("p1")
  \/ Return("p1")

SpecInput == Init /\ [][NextInput]_vars

\* Every input path of handle_entry but the bulk tokens: one worker, with
\* the admin editing members on the change form
NextDispatch ==
  \/ InputRequest("p1")
  \/ MemberRequest("p1")
  \/ Return("p1")
  \/ AdminChange

SpecDispatch == Init /\ [][NextDispatch]_vars

\* The admin acting on the roster (reset, change form) between bulk
\* transitions
NextReset ==
  \/ ResetRecorded
  \/ AdminChange
  \/ BulkRequest("p1")
  \/ Return("p1")

SpecReset == Init /\ [][NextReset]_vars

----------------------------------------------------------------------------
(* Steps the properties speak about *)

\* request p commits its member write in this step (user.save() and the end
\* of the transaction block)
CommitStep(p) ==
  req[p].pc = "locked" /\ req'[p].pc = "committed"

\* request p is received with the (stripped) input s and answered in this step
AnsweredStep(p, s) ==
  req[p].pc = "idle" /\ req'[p].pc = "done" /\ req'[p].inp = s

\* the larger of two integers
Max(a, b) ==
  IF a >= b THEN a ELSE b

\* the entries the step appended to the log
Appended ==
  SubSeq(log', Len(log) + 1, Len(log'))

----------------------------------------------------------------------------
(* Single transitions *)

\* C1: a single transition of a member that is checked out, at time now,
\* sets checked_in = true and last_in = now and leaves total_seconds and
\* last_out as they were.
C1_CheckInSetsLastIn ==
  [][\A p \in Procs :
       LET m == req[p].uid
       IN (CommitStep(p) /\ ~users[m].checked_in)
            => /\ users'[m].checked_in = TRUE
               /\ users'[m].last_in = req[p].now
               /\ users'[m].total = users[m].total
               /\ users'[m].last_out = users[m].last_out
               /\ users'[m].active = users[m].active]_vars

\* C1 witness: a member with time on the clock and an earlier check-out has
\* just been checked in at a time other than its previous last_in
C1_Witness ==
  \E p \in Procs :
    /\ req[p].pc = "committed"
    /\ req[p].lop = OP_CHECK_IN
    /\ users[req[p].uid].checked_in
    /\ users[req[p].uid].total > 0
    /\ users[req[p].uid].last_out # NoTime
    /\ users[req[p].uid].last_in = req[p].now

\* C2: a single transition of a member that is checked in with last_in = t0,
\* at time now, sets checked_in = false, last_out = now and adds
\* max(0, now - t0) to total_seconds, also when t0 > now.
C2_CheckOutAddsClampedDelta ==
  [][\A p \in Procs :
       LET m == req[p].uid
           t0 == users[m].last_in
       IN (CommitStep(p) /\ users[m].checked_in /\ t0 # NoTime)
            => /\ users'[m].checked_in = FALSE
               /\ users'[m].last_out = req[p].now
               /\ users'[m].total = users[m].total + Max(0, req[p].now - t0)]_vars

\* C3: total_seconds is never negative, whatever times the transitions,
\* bulk transitions and resets are given.
C3_TotalNeverNegative ==
  \A m \in UserIds : users[m].total >= 0

\* C4: the member write of a single transition and its Success log entry
\* are committed together or not at all: once the request is answered,
\* the member change is durable exactly when the log entry is.
C4_MemberAndLogTogether ==
  \A p \in Procs :
    (req[p].pc = "done" /\ req[p].lop \in {OP_CHECK_IN, OP_CHECK_OUT})
      => (req[p].committed <=> req[p].logged)

\* the operation a single transition performs on a row
Direction(u) ==
  IF u.checked_in THEN OP_CHECK_OUT ELSE OP_CHECK_IN

\* a and b both transitioned member m, and the outcome is the one of a's
\* transition followed by b's
SerialOutcome(m, a, b) ==
  LET u0 == RaceUsers[m]
      u1 == ProcessRow(u0, req[a].now)
      u2 == ProcessRow(u1, req[b].now)
  IN /\ users[m] = u2
     /\ req[a].lop = Direction(u0)
     /\ req[b].lop = Direction(u1)

\* C5: two concurrent single transitions of the same member leave the member
\* as one of the two serial orders does (so the session is credited once),
\* and log one Check In and one Check Out, never the same operation twice.
C5_ConcurrentTransitionsSerialize ==
  \A m \in UserIds :
    (\A p \in Procs : /\ req[p].pc = "done" /\ req[p].uid = m
                      /\ req[p].committed /\ req[p].logged)
      => /\ SerialOutcome(m, "p1", "p2") \/ SerialOutcome(m, "p2", "p1")
         /\ Len(log) = 2
         /\ \A i \in 1..2 : log[i].user = m /\ log[i].status = SUCCESS
         /\ {log[1].operation, log[2].operation} = {OP_CHECK_IN, OP_CHECK_OUT}
         /\ users[m].total \in {req["p2"].now - req["p1"].now,
                                req["p1"].now - req["p2"].now,
                                req["p1"].now, req["p2"].now}

\* C5 witness: both requests transitioned member 1 (checked out at first),
\* and they overlapped: the Check Out entry was saved before the Check In
\* entry of the request that committed first
C5_Witness ==
  /\ \A p \in Procs : /\ req[p].pc = "done" /\ req[p].uid = 1
                      /\ req[p].committed /\ req[p].logged
  /\ Len(log) = 2
  /\ log[1].operation = OP_CHECK_OUT
  /\ log[2].operation = OP_CHECK_IN

----------------------------------------------------------------------------
(* Bulk transitions *)

\* the members a bulk check-out selects, and those a bulk check-in selects
CheckedInActive ==
  {m \in UserIds : users[m].active /\ users[m].checked_in}

CheckedOutActive ==
  {m \in UserIds : users[m].active /\ ~users[m].checked_in}

\* a bulk request that ran to its redirect
BulkDone(p, tok) ==
  AnsweredStep(p, tok) /\ req'[p].resp.http = 302

\* C6: a bulk check-out at time now leaves every member as the single
\* check-out transition at the same now leaves it, in checked_in,
\* total_seconds, last_in and last_out, a missing last_in included.
C6_BulkCheckOutAsSingle ==
  [][\A p \in Procs :
       BulkDone(p, BULK_CHECK_OUT)
         => \A m \in UserIds :
              users'[m] = IF m \in CheckedInActive
                          THEN CheckOutFields(users[m], req'[p].now)
                          ELSE users[m]]_vars

\* C7: a bulk transition is all-or-nothing: when a statement of the batch
\* raises, no member and no log entry is written; otherwise every selected
\* member is flipped and has its log entry.
C7_BulkAllOrNothing ==
  [][\A p \in Procs, tok \in {BULK_CHECK_IN, BULK_CHECK_OUT} :
       LET S == IF tok = BULK_CHECK_IN THEN CheckedOutActive ELSE CheckedInActive
       IN /\ (AnsweredStep(p, tok) /\ req'[p].resp.http = 500)
               => users' = users /\ log' = log
          /\ (BulkDone(p, tok) /\ (tok = BULK_CHECK_IN => envDEBUG = "True"))
               => /\ \A m \in S : users'[m].checked_in = ~users[m].checked_in
                  /\ Len(Appended) = Cardinality(S)
                  /\ \A m \in S : \E i \in 1..Len(Appended) :
                                    Appended[i].user = m]_vars

\* C7 witness: a bulk check-out has failed with two members to check out,
\* and both are still checked in with nothing logged
C7_Witness ==
  \E p \in Procs :
    /\ req[p].pc = "done"
    /\ req[p].inp = BULK_CHECK_OUT
    /\ req[p].resp.http = 500
    /\ CheckedInActive = UserIds
    /\ \A i \in 1..Len(log) : log[i].operation # OP_CHECK_OUT

\* C8: after a bulk check-out that selected N members, all N are checked
\* out and exactly N log entries were appended, one per selected member:
\* Check Out, Success, the member as user and its id as the text entered;
\* none for any other member.
C8_BulkCheckOutLogs ==
  [][\A p \in Procs :
       BulkDone(p, BULK_CHECK_OUT)
         => /\ \A m \in CheckedInActive : ~users'[m].checked_in
            /\ Len(Appended) = Cardinality(CheckedInActive)
            /\ \A i \in 1..Len(Appended) :
                 /\ Appended[i].user \in CheckedInActive
                 /\ Appended[i].operation = "Check Out"
                 /\ Appended[i].status = "Success"
                 /\ Appended[i].entered =
                      (IF Appended[i].user = 1 THEN "1" ELSE "2")
            /\ \A m \in CheckedInActive :
                 Cardinality({i \in 1..Len(Appended) : Appended[i].user = m}) = 1
            /\ log' = log \o Appended]_vars

\* C8 witness: a bulk check-out has checked out both members and the log
\* ends with their two Check Out entries
C8_Witness ==
  \E p \in Procs :
    /\ req[p].pc = "done"
    /\ req[p].inp = BULK_CHECK_OUT
    /\ req[p].resp.http = 302
    /\ \A m \in UserIds : ~users[m].checked_in /\ users[m].last_out = req[p].now
    /\ Len(log) >= 2
    /\ log[Len(log) - 1] = LogEntry("1", 1, OP_CHECK_OUT, SUCCESS)
    /\ log[Len(log)] = LogEntry("2", 2, OP_CHECK_OUT, SUCCESS)

\* C9: with the debug flag off (DEBUG absent or not 'True'), the bulk
\* check-in token is a no-op answered with the redirect: no member changes
\* and no log entry is written.
C9_BulkCheckInDisabledIsNoOp ==
  [][\A p \in Procs :
       (AnsweredStep(p, BULK_CHECK_IN) /\ envDEBUG # "True")
         => /\ users' = users
            /\ log' = log
            /\ req'[p].resp.http = 302]_vars

\* C9 witness: the bulk check-in token was answered with DEBUG absent while
\* both members were there to check in
C9_Witness ==
  \E p \in Procs :
    /\ req[p].pc = "done"
    /\ req[p].inp = BULK_CHECK_IN
    /\ envDEBUG = "unset"
    /\ req[p].resp.http = 302
    /\ CheckedOutActive = UserIds

\* C10: with the debug flag on, the bulk check-in token at time now sets
\* checked_in = true and last_in = now for every active checked-out member,
\* leaves their total_seconds unchanged, and appends one Check In / Success
\* entry per such member.
C10_BulkCheckIn ==
  [][\A p \in Procs :
       (BulkDone(p, BULK_CHECK_IN) /\ envDEBUG = "True")
         => /\ \A m \in CheckedOutActive :
                 /\ users'[m].checked_in = TRUE
                 /\ users'[m].last_in = req'[p].now
                 /\ users'[m].total = users[m].total
                 /\ Cardinality({i \in 1..Len(Appended) :
                                   Appended[i].user = m}) = 1
            /\ Len(Appended) = Cardinality(CheckedOutActive)
            /\ \A i \in 1..Len(Appended) :
                 /\ Appended[i].user \in CheckedOutActive
                 /\ Appended[i].operation = "Check In"
                 /\ Appended[i].status = "Success"]_vars

\* C10 witness: a bulk check-in at a time other than its creation time has
\* checked in a member that has time on the clock
C10_Witness ==
  \E p \in Procs, m \in UserIds :
    /\ req[p].pc = "done"
    /\ req[p].inp = BULK_CHECK_IN
    /\ req[p].resp.http = 302
    /\ envDEBUG = "True"
    /\ users[m].checked_in
    /\ users[m].total > 0
    /\ users[m].last_in = req[p].now
    /\ req[p].now # 0
    /\ Len(log) >= 1
    /\ log[Len(log)].operation = OP_CHECK_IN

----------------------------------------------------------------------------
(* Inputs that reach no member *)

\* request p is received with the (stripped) input s in this step
ReceivedStep(p, s) ==
  req[p].pc = "idle" /\ req'[p].pc # "idle" /\ req'[p].inp = s

\* the request was answered by the `except Exception` handler (a storage
\* fault in one of its writes)
Faulted(r) ==
  r.http = 500

\* integer inputs that are the id of no member: a small one, a negative one
\* and a very large one
NonMemberIds ==
  {"9", "-123", "999999999"}

\* inputs that are neither reserved tokens nor integers
NonIntegers ==
  {"abc", "1.5"}

\* the control tokens: refresh, admin, logout, send to the sheet
ControlTokens ==
  {"+00", "+01", "*", "admin", "---", "Send"}

\* C11: dispatching an integer that is the id of no member (negative and
\* very large ones included) changes no member and is answered at once;
\* unless the log write itself faults, it appends exactly one entry (User
\* Not Found, operation None, no member, the input as entered) and answers
\* User Not Found. Each such dispatch appends its own entry.
C11_NotFoundLogsOnce ==
  [][\A p \in Procs, s \in NonMemberIds :
       ReceivedStep(p, s)
         => /\ users' = users
            /\ req'[p].pc = "done"
            /\ req'[p].uid = NoUser
            /\ IF Faulted(req'[p].resp)
               THEN log' = log
               ELSE /\ log' = Append(log, LogEntry(s, NoUser, "None",
                                                   "User Not Found"))
                    /\ req'[p].resp.http = 200
                    /\ req'[p].resp.status = "User Not Found"]_vars

\* C11 witness: the negative id was dispatched twice while members were
\* checked in, and the log ends with its two entries
C11_Witness ==
  /\ req["p1"].pc = "done"
  /\ req["p1"].inp = "-123"
  /\ req["p1"].resp.status = USER_NOT_FOUND
  /\ \E m \in UserIds : users[m].checked_in
  /\ Len(log) >= 2
  /\ log[Len(log)] = LogEntry("-123", NoUser, OP_NONE, USER_NOT_FOUND)
  /\ log[Len(log) - 1] = LogEntry("-123", NoUser, OP_NONE, USER_NOT_FOUND)

\* C13: dispatching an empty or whitespace-only input is answered with
\* status Error and HTTP 400, writes no log entry and changes no member.
C13_EmptyInputRejected ==
  [][\A p \in Procs :
       ReceivedStep(p, "")
         => /\ users' = users
            /\ log' = log
            /\ req'[p].pc = "done"
            /\ req'[p].resp.http = 400
            /\ req'[p].resp.status = "Error"]_vars

\* C13 witness: an empty input was answered 400 while members were checked
\* in and the log held their entries
C13_Witness ==
  /\ req["p1"].pc = "done"
  /\ req["p1"].inp = ""
  /\ req["p1"].resp.http = 400
  /\ \A m \in UserIds : users[m].checked_in
  /\ Len(log) = Cardinality(UserIds)

\* C14: dispatching an input that is neither a reserved token nor an
\* integer changes no member and is answered at once; unless the log write
\* itself faults, it appends exactly one entry (Invalid Input, operation
\* None, no member, entered = the input) and answers Invalid Input.
C14_InvalidInputLogged ==
  [][\A p \in Procs, s \in NonIntegers :
       ReceivedStep(p, s)
         => /\ users' = users
            /\ req'[p].pc = "done"
            /\ req'[p].uid = NoUser
            /\ IF Faulted(req'[p].resp)
               THEN log' = log
               ELSE /\ log' = Append(log, LogEntry(s, NoUser, "None",
                                                   "Invalid Input"))
                    /\ req'[p].resp.http = 200
                    /\ req'[p].resp.status = "Invalid Input"]_vars

\* C14 witness: a decimal number was answered Invalid Input while members
\* were checked in, and its entry is the last of the log
C14_Witness ==
  /\ req["p1"].pc = "done"
  /\ req["p1"].inp = "1.5"
  /\ req["p1"].resp.status = INVALID_INPUT
  /\ req["p1"].logged
  /\ \E m \in UserIds : users[m].checked_in
  /\ Len(log) >= 1
  /\ log[Len(log)] = LogEntry("1.5", NoUser, OP_NONE, INVALID_INPUT)

\* C15: dispatching a control token (refresh, admin, logout, send) is
\* answered with a redirect and leaves the members and the log unchanged.
C15_ControlTokensTouchNothing ==
  [][\A p \in Procs, s \in ControlTokens :
       ReceivedStep(p, s)
         => /\ users' = users
            /\ log' = log
            /\ req'[p].pc = "done"
            /\ req'[p].resp.http = 302]_vars

\* C15 witness: the admin token was answered with a redirect while members
\* were checked in and the log held their entries
C15_Witness ==
  /\ req["p1"].pc = "done"
  /\ req["p1"].inp = "admin"
  /\ req["p1"].resp.http = 302
  /\ \A m \in UserIds : users[m].checked_in
  /\ Len(log) = Cardinality(UserIds)

----------------------------------------------------------------------------
(* Inactive members, and requests that end in the generic Error *)

\* the (stripped) input that is member m's id
IdInput(m) ==
  IF m = 1 THEN "1" ELSE "2"

\* C12: a single transition dispatched for a member that is inactive is
\* answered at once without opening a transaction and changes no member:
\* checked_in, total_seconds, last_in and last_out stay as they were,
\* however often it is repeated.
C12_InactiveMemberFrozen ==
  [][\A p \in Procs, m \in UserIds :
       (ReceivedStep(p, IdInput(m)) /\ ~users[m].active)
         => /\ users' = users
            /\ req'[p].pc = "done"
            /\ ~req'[p].committed
            /\ rowlock' = rowlock
            /\ ~Faulted(req'[p].resp)
                 => req'[p].resp.status = "Inactive User"]_vars

\* C12 witness: an inactive member that is checked in was dispatched twice;
\* the log ends with the two Inactive User entries and the member is still
\* checked in with its last_in
C12_Witness ==
  \E m \in UserIds :
    /\ req["p1"].pc = "done"
    /\ req["p1"].uid = m
    /\ req["p1"].resp.status = INACTIVE_USER
    /\ ~users[m].active
    /\ users[m].checked_in
    /\ users[m].last_in # NoTime
    /\ Len(log) >= 2
    /\ log[Len(log)] = LogEntry(IdInput(m), m, OP_NONE, INACTIVE_USER)
    /\ log[Len(log) - 1] = LogEntry(IdInput(m), m, OP_NONE, INACTIVE_USER)

\* C16: every dispatch with non-blank input, whatever its outcome (the
\* generic Error included), leaves at least one new log entry: the step
\* that answers the request has appended to the log.
C16_EveryAttemptLogged ==
  [][\A p \in Procs :
       (req[p].pc # "done" /\ req'[p].pc = "done" /\ req'[p].inp # "")
         => Len(log') > Len(log)]_vars

\* C17: a single transition that ended with the generic Error status has
\* left the member as it was before the dispatch: its member write is not
\* durable.
C17_ErrorLeavesMemberUntouched ==
  \A p \in Procs :
    (/\ req[p].pc = "done"
     /\ req[p].uid \in UserIds
     /\ req[p].resp.status = ERROR)
      => ~req[p].committed

----------------------------------------------------------------------------
(* Reset *)

\* this step is a Reset Members action
ResetStep ==
  ops' # ops /\ lastReset'.op = ops'

\* the entries of a sequence that are about member m and operation op
EntriesOf(entries, m, op) ==
  {i \in 1..Len(entries) : entries[i].user = m /\ entries[i].operation = op}

\* C18: after a reset of the members S, every member of S is checked out
\* with total_seconds = 0 and last_in and last_out cleared (an open session
\* is dropped, not credited), and every other member is as it was.
C18_ResetClearsSelected ==
  [][(ResetStep /\ lastReset'.fault = "none")
       => \A m \in UserIds :
            users'[m] = IF m \in lastReset'.selected
                        THEN [active |-> users[m].active, checked_in |-> FALSE,
                              total |-> 0, last_in |-> -1, last_out |-> -1]
                        ELSE users[m]]_vars

\* C18 witness: member 1 was reset while its session was open (the reset
\* logged its check-out), and member 2, not selected, is still checked in
C18_Witness ==
  /\ lastReset = [selected |-> {1}, fault |-> "none", op |-> ops]
  /\ users[1] = [active |-> TRUE, checked_in |-> FALSE, total |-> 0,
                 last_in |-> NoTime, last_out |-> NoTime]
  /\ users[2].checked_in
  /\ users[2].last_in # NoTime
  /\ Len(log) >= 2
  /\ log[Len(log) - 1] = LogEntry("", 1, OP_CHECK_OUT, SUCCESS)
  /\ log[Len(log)] = LogEntry("", 1, OP_RESET, SUCCESS)

\* C19: a reset appends, for each selected member, exactly one Reset /
\* Success entry and, exactly when the member was checked in, one Check
\* Out / Success entry that comes before that member's Reset entry; it
\* appends nothing else.
C19_ResetLogs ==
  [][(ResetStep /\ lastReset'.fault = "none")
       => /\ log' = log \o Appended
          /\ \A i \in 1..Len(Appended) :
               /\ Appended[i].user \in lastReset'.selected
               /\ Appended[i].operation \in {"Reset", "Check Out"}
               /\ Appended[i].status = "Success"
          /\ \A m \in lastReset'.selected :
               /\ Cardinality(EntriesOf(Appended, m, "Reset")) = 1
               /\ Cardinality(EntriesOf(Appended, m, "Check Out")) =
                    (IF users[m].checked_in THEN 1 ELSE 0)
               /\ \A i \in EntriesOf(Appended, m, "Check Out"),
                     j \in EntriesOf(Appended, m, "Reset") : i < j]_vars

\* C19 witness: both members were reset, member 1 checked in and member 2
\* checked out; the log ends with Check Out 1, Reset 1, Reset 2
C19_Witness ==
  /\ lastReset = [selected |-> UserIds, fault |-> "none", op |-> ops]
  /\ Len(log) >= 3
  /\ SubSeq(log, Len(log) - 2, Len(log)) =
       <<LogEntry("", 1, OP_CHECK_OUT, SUCCESS),
         LogEntry("", 1, OP_RESET, SUCCESS),
         LogEntry("", 2, OP_RESET, SUCCESS)>>
  /\ Len(log) > 3 => log[Len(log) - 3].operation # OP_CHECK_OUT

\* C20: a reset in which the member update or the log insert faults
\* changes no member and persists none of its Check Out or Reset entries.
C20_ResetAllOrNothing ==
  [][(ResetStep /\ lastReset'.fault # "none")
       => users' = users /\ log' = log]_vars

\* C20 witness: a reset of both members faulted at the log insert; both are
\* still checked in with their last_in and no Reset entry is in the log
C20_Witness ==
  /\ lastReset = [selected |-> UserIds, fault |-> "create", op |-> ops]
  /\ \A m \in UserIds : users[m].checked_in /\ users[m].last_in # NoTime
  /\ \A i \in 1..Len(log) : log[i].operation # OP_RESET
  /\ Len(log) = Cardinality(UserIds)

----------------------------------------------------------------------------
(* A session: check-in followed by check-out *)

\* the request of p transitioned member m: committed and logged
Transitioned(p, m) ==
  /\ req[p].pc = "done"
  /\ req[p].uid = m
  /\ req[p].committed
  /\ req[p].logged

\* C21: an active member that is checked out with total_seconds = S, whose
\* id is dispatched at time T and again at T + d (d >= 0), ends checked out
\* with last_in = T, last_out = T + d and total_seconds = S + d, and the
\* log has gained Check In / Success followed by Check Out / Success.
C21_CheckInThenCheckOut ==
  \A m \in UserIds :
    LET T == req["p1"].now
        d == req["p2"].now - T
    IN (Transitioned("p1", m) /\ Transitioned("p2", m) /\ d >= 0)
         => /\ users[m] = [active |-> TRUE, checked_in |-> FALSE,
                           total |-> SessionUsers[m].total + d,
                           last_in |-> T, last_out |-> T + d]
            /\ log = <<LogEntry(IdInput(m), m, "Check In", "Success"),
                       LogEntry(IdInput(m), m, "Check Out", "Success")>>

\* C21 witness: member 1 (one second on the clock) was dispatched at time 0
\* and again at time 1
C21_Witness ==
  /\ Transitioned("p1", 1)
  /\ Transitioned("p2", 1)
  /\ req["p1"].now = 0
  /\ req["p2"].now = 1
  /\ users[1].total = 2

\* C22: a check-out, single or bulk, of a member that is checked in with no
\* last_in goes through with last_in taken as now: total_seconds is
\* unchanged, last_out = now and checked_in = false.
C22_CheckOutWithoutLastIn ==
  [][\A p \in Procs :
       /\ LET m == req[p].uid
          IN (CommitStep(p) /\ users[m].checked_in /\ users[m].last_in = NoTime)
               => /\ users'[m].total = users[m].total
                  /\ users'[m].last_out = req[p].now
                  /\ users'[m].checked_in = FALSE
       /\ AnsweredStep(p, "+404") /\ ~Faulted(req'[p].resp)
            => \A m \in CheckedInActive :
                 users[m].last_in = NoTime
                   => /\ users'[m].total = users[m].total
                      /\ users'[m].last_out = req'[p].now
                      /\ users'[m].checked_in = FALSE]_vars

\* C22 witness: member m was reset, marked checked in on the change form
\* (so it has no last_in) and then dispatched: it is checked out at the
\* time of the request with nothing added
C22_Witness ==
  \E m \in UserIds :
    /\ Transitioned("p1", m)
    /\ req["p1"].lop = OP_CHECK_OUT
    /\ log = <<LogEntry("", m, OP_RESET, SUCCESS),
               LogEntry(IdInput(m), m, OP_CHECK_OUT, SUCCESS)>>
    /\ users[m].checked_in = FALSE
    /\ users[m].total = 0
    /\ users[m].last_out = req["p1"].now

----------------------------------------------------------------------------
(* The count a dispatch returns *)

\* C23: the count a single dispatch returns is the checked-in count it
\* fetched at its start, plus 1 after a successful check-in, minus 1 after
\* a successful check-out, and as fetched for the Invalid Input, User Not
\* Found and Inactive User outcomes.
C23_ReturnedCount ==
  [][\A p \in Procs :
       /\ (req[p].pc = "idle" /\ req'[p].pc = "atomic")
            => req'[p].count = CheckedInCount(users)
       /\ (req[p].pc = "idle" /\ req'[p].pc = "done"
              /\ req'[p].resp.status
                   \in {"Invalid Input", "User Not Found", "Inactive User"})
            => req'[p].resp.count = CheckedInCount(users)
       /\ (req[p].pc \in {"atomic", "locked"} /\ req'[p].pc # "done")
            => req'[p].count = req[p].count
       /\ (req[p].pc = "committed" /\ req'[p].pc = "done"
              /\ ~Faulted(req'[p].resp))
            => req'[p].resp.count =
                 req[p].count + (IF req'[p].resp.status = "Success" THEN 1
                                 ELSE -1)]_vars

\* C23 witness: with one member checked in, the other was checked in and
\* the request returned 2; the count of the next dispatch (an unknown id)
\* was then 2 as well
C23_Witness ==
  /\ req["p1"].pc = "done"
  /\ req["p1"].resp.status = USER_NOT_FOUND
  /\ req["p1"].resp.count = 2
  /\ \A m \in UserIds : users[m].checked_in /\ users[m].active
  /\ Len(log) >= 2
  /\ log[Len(log) - 1].operation = OP_CHECK_IN

----------------------------------------------------------------------------
(* The log as an audit trail *)

\* C24: no dispatch, bulk transition or reset modifies or removes a log
\* entry: after every step, the log is the log before it, possibly with
\* entries added at its end.
C24_LogAppendOnly ==
  [][/\ Len(log') >= Len(log)
     /\ SubSeq(log', 1, Len(log)) = log]_vars

\* C24 witness: the log holds, in this order, the entry of a single
\* check-in, the entry of the bulk check-out that followed and the entry of
\* the reset after that
C24_Witness ==
  \E m \in UserIds :
    /\ log = <<LogEntry(IdInput(m), m, OP_CHECK_IN, SUCCESS),
               LogEntry(IdInput(m), m, OP_CHECK_OUT, SUCCESS),
               LogEntry("", m, OP_RESET, SUCCESS)>>
    /\ req["p1"].pc = "done"
    /\ req["p1"].inp = BULK_CHECK_OUT

----------------------------------------------------------------------------
(* A bulk check-out beside a single transition *)

\* the bulk check-out of p ran to its redirect
BulkCheckedOut(p) ==
  /\ req[p].pc = "done"
  /\ req[p].inp = BULK_CHECK_OUT
  /\ req[p].resp.http = 302

\* the bulk check-out at time nb, then the single transition of m at ns
BulkThenSingle(m, nb, ns) ==
  LET u1 == BulkRow(RaceUsers[m], BULK_CHECK_OUT, nb)
  IN /\ users[m] = CheckInFields(u1, ns)
     /\ log = <<LogEntry(IdInput(m), m, OP_CHECK_OUT, SUCCESS),
                LogEntry(IdInput(m), m, OP_CHECK_IN, SUCCESS)>>

\* the single transition of m at ns, then the bulk check-out (which finds m
\* checked out and selects nobody)
SingleThenBulk(m, nb, ns) ==
  /\ users[m] = CheckOutFields(RaceUsers[m], ns)
  /\ log = <<LogEntry(IdInput(m), m, OP_CHECK_OUT, SUCCESS)>>

\* C25: a bulk check-out and a concurrent single transition of a member
\* that is checked in end, whatever the interleaving, as one of the two
\* serial orders does: the session is credited once, the single transition
\* is not overwritten, and the session has one Check Out / Success entry.
C25_BulkSingleSerialize ==
  \A m \in UserIds :
    (BulkCheckedOut("p1") /\ Transitioned("p2", m) /\ RaceUsers[m].checked_in)
      => \/ BulkThenSingle(m, req["p1"].now, req["p2"].now)
         \/ SingleThenBulk(m, req["p1"].now, req["p2"].now)

----------------------------------------------------------------------------
(* Invariants of the member fields *)

\* C26: starting from members that satisfy it, after any sequence of
\* single transitions, bulk transitions and resets, every member that is
\* checked in has its last_in set.
C26_CheckedInHasLastIn ==
  \A m \in UserIds : users[m].checked_in => users[m].last_in # NoTime

\* C26 witness: a member whose last_in a reset had cleared was checked in
\* afterwards and has its last_in again
C26_Witness ==
  \E m \in UserIds :
    /\ users[m].checked_in
    /\ users[m].last_in # NoTime
    /\ users[m].last_out = NoTime
    /\ Len(log) >= 2
    /\ log[Len(log)].user = m
    /\ log[Len(log)].operation = OP_CHECK_IN
    /\ \E i \in 1..Len(log) :
         log[i].user = m /\ log[i].operation = OP_RESET

\* the step appended a Reset entry for member m
ResetOf(m) ==
  \E i \in 1..Len(Appended) :
    Appended[i].user = m /\ Appended[i].operation = OP_RESET

\* C27: from one state to the next, a member's total_seconds never
\* decreases, except in a step that is a reset of that member.
C27_TotalNeverDecreases ==
  [][\A m \in UserIds :
       users'[m].total < users[m].total => ResetOf(m)]_vars

----------------------------------------------------------------------------
(* Log entries and responses of single transitions *)

\* C28: a single transition dispatched for an inactive member is answered at
\* once; unless the log write itself faults, it appends exactly one entry
\* (status Inactive User, operation None, member = that member) and answers
\* Inactive User with state none and the checked-in count as it was.
C28_InactiveAttemptLogged ==
  [][\A p \in Procs, m \in UserIds :
       (ReceivedStep(p, IdInput(m)) /\ ~users[m].active)
         => /\ req'[p].pc = "done"
            /\ CheckedInCount(users') = CheckedInCount(users)
            /\ IF Faulted(req'[p].resp)
               THEN log' = log
               ELSE /\ log' = Append(log, LogEntry(IdInput(m), m, "None",
                                                   "Inactive User"))
                    /\ req'[p].resp.http = 200
                    /\ req'[p].resp.status = "Inactive User"
                    /\ req'[p].resp.state = "None"
                    /\ req'[p].resp.count = CheckedInCount(users)]_vars

\* C28 witness: an inactive, checked-out member was answered Inactive User
\* with count 1 while the other member was checked in
C28_Witness ==
  \E m \in UserIds :
    /\ req["p1"].pc = "done"
    /\ req["p1"].uid = m
    /\ req["p1"].resp = Response(200, INACTIVE_USER, "None", 1)
    /\ ~users[m].active
    /\ ~users[m].checked_in
    /\ \E o \in UserIds \ {m} : users[o].checked_in
    /\ Len(log) >= 1
    /\ log[Len(log)] = LogEntry(IdInput(m), m, OP_NONE, INACTIVE_USER)

\* request p, whose transaction committed, saves its log and answers
LoggedStep(p) ==
  req[p].pc = "committed" /\ req'[p].pc = "done" /\ ~Faulted(req'[p].resp)

\* C29: a successful single transition writes the member row with
\* checked_in flipped and then appends exactly one entry: status Success,
\* member = the member, entered = the input, operation Check In when the
\* member became checked in and Check Out when it became checked out; the
\* returned state is the new checked_in value, with response status
\* 'Success' for a check-in and 'Check Out' for a check-out.
C29_SuccessLogged ==
  [][\A p \in Procs :
       /\ CommitStep(p)
            => /\ users'[req[p].uid] = req[p].user
               /\ users'[req[p].uid].checked_in
                    = ~users[req[p].uid].checked_in
               /\ log' = log
       /\ LoggedStep(p)
            => LET m == req[p].uid
                   became == req[p].user.checked_in
               IN /\ users' = users
                  /\ log' = Append(log,
                       LogEntry(req[p].inp, m,
                                IF became THEN "Check In" ELSE "Check Out",
                                "Success"))
                  /\ req[p].inp = IdInput(m)
                  /\ req'[p].resp.http = 200
                  /\ req'[p].resp.state = (IF became THEN "True" ELSE "False")
                  /\ req'[p].resp.status
                       = (IF became THEN "Success" ELSE "Check Out")]_vars

\* C29 witness: a check-in and then a check-out of one member were both
\* answered, the second with state false and status Check Out, and the log
\* ends with their two Success entries
C29_Witness ==
  \E m \in UserIds :
    /\ req["p1"].pc = "done"
    /\ req["p1"].uid = m
    /\ req["p1"].resp.http = 200
    /\ req["p1"].resp.state = "False"
    /\ req["p1"].resp.status = CHECK_OUT_STATUS
    /\ ~users[m].checked_in
    /\ Len(log) >= 2
    /\ log[Len(log) - 1] = LogEntry(IdInput(m), m, OP_CHECK_IN, SUCCESS)
    /\ log[Len(log)] = LogEntry(IdInput(m), m, OP_CHECK_OUT, SUCCESS)

----------------------------------------------------------------------------
(* Frame of the bulk transitions *)

\* the member is already in the state the bulk token moves members to
InTargetState(u, tok) ==
  u.checked_in = (tok = BULK_CHECK_IN)

\* C30: a bulk transition in either direction leaves every inactive member,
\* and every active member already in the target state, unchanged in all
\* fields and appends no log entry for them.
C30_BulkLeavesOthersAlone ==
  [][\A p \in Procs, tok \in {BULK_CHECK_IN, BULK_CHECK_OUT}, m \in UserIds :
       (AnsweredStep(p, tok)
          /\ (~users[m].active \/ InTargetState(users[m], tok)))
         => /\ users'[m] = users[m]
            /\ \A i \in 1..Len(Appended) : Appended[i].user # m]_vars

\* C30 witness: a bulk check-out checked one member out and passed over an
\* inactive member, who is still checked in with no entry of its own at the
\* end of the log
C30_Witness ==
  \E m \in UserIds, o \in UserIds :
    /\ m # o
    /\ req["p1"].pc = "done"
    /\ req["p1"].inp = BULK_CHECK_OUT
    /\ req["p1"].resp.http = 302
    /\ ~users[m].active
    /\ users[m].checked_in
    /\ users[m].last_out = NoTime
    /\ users[o].active
    /\ ~users[o].checked_in
    /\ Len(log) >= 1
    /\ log[Len(log)] = LogEntry(Str(o), o, OP_CHECK_OUT, SUCCESS)

----------------------------------------------------------------------------
(* Termination *)

\* request p has been received and not yet answered
Running(p) ==
  req[p].pc \notin {"idle", "done"}

----------------------------------------------------------------------------
(* Deleting a member *)

\* member m is deleted in this step
DeletedStep(m) ==
  users[m] # NoRow /\ users'[m] = NoRow

\* C32: after a member is deleted, every log entry that referenced it still
\* exists and keeps its entered value, its member reference becoming none;
\* deleting a member never removes log entries.
C32_DeleteKeepsLog ==
  [][\A m \in UserIds :
       DeletedStep(m)
         => /\ Len(log') = Len(log)
            /\ \A i \in 1..Len(log) :
                 log'[i] = IF log[i].user = m
                           THEN [log[i] EXCEPT !.user = NoUser]
                           ELSE log[i]]_vars

----------------------------------------------------------------------------
(* The dashboard log *)

\* the `limit` most recently created rows of the log, newest first
NewestCreated(lg, limit) ==
  LET n == IF Len(lg) < limit THEN Len(lg) ELSE limit
  IN [k \in 1..n |-> lg[Len(lg) + 1 - k]]

\* C33: the dashboard read returns exactly the min(9, n) most recently
\* created entries of the n entries in the log, newest first.
C33_DashboardNewestFirst ==
  [][\A p \in Procs :
       (req[p].pc = "idle" /\ req'[p].pc = "done" /\ req'[p].inp = "index")
         => snapshot'[p].rows = NewestCreated(log, 9)]_vars

----------------------------------------------------------------------------
(* A reset beside a single transition *)

\* the entries of the log that are about member m, in log order
AboutMember(lg, m) ==
  SelectSeq(lg, LAMBDA entry : entry.user = m)

\* two sequences hold the same entries, each as often
SameEntries(a, b) ==
  /\ Len(a) = Len(b)
  /\ \A i \in 1..Len(a) :
       Cardinality({j \in 1..Len(a) : a[j] = a[i]})
         = Cardinality({j \in 1..Len(b) : b[j] = a[i]})

\* the reset of p ran to its redirect, with m selected
ResetDone(p, m) ==
  /\ req[p].pc = "done"
  /\ req[p].resp.http = 302
  /\ \E i \in 1..Len(log) :
       log[i] = LogEntry("", m, OP_RESET, SUCCESS)

\* the reset of m, then the single transition of m at time ns
ResetThenSingle(m, ns) ==
  LET u0 == RaceUsers[m]
      u1 == ResetRow(u0)
  IN /\ users[m] = ProcessRow(u1, ns)
     /\ SameEntries(AboutMember(log, m),
                    ResetRowLogs(u0, m)
                      \o <<LogEntry(IdInput(m), m, Direction(u1), SUCCESS)>>)

\* the single transition of m at time ns, then the reset of m
SingleThenReset(m, ns) ==
  LET u0 == RaceUsers[m]
      u1 == ProcessRow(u0, ns)
  IN /\ users[m] = ResetRow(u1)
     /\ SameEntries(AboutMember(log, m),
                    <<LogEntry(IdInput(m), m, Direction(u0), SUCCESS)>>
                      \o ResetRowLogs(u1, m))

\* C34: a reset and a concurrent single transition of a selected member
\* end, whatever the interleaving, as one of the two serial orders does, in
\* the member's fields and in the log entries about the member.
C34_ResetSingleSerialize ==
  \A m \in UserIds :
    (ResetDone("p1", m) /\ Transitioned("p2", m))
      => ResetThenSingle(m, req["p2"].now) \/ SingleThenReset(m, req["p2"].now)

\* C34 witness: the single transition checked member 2 out while the reset
\* was waiting for the row, and the reset, which found the member checked
\* out, logged only its Reset entry, before the Check Out entry was saved
C34_Witness ==
  /\ ResetDone("p1", 2)
  /\ Transitioned("p2", 2)
  /\ req["p2"].lop = OP_CHECK_OUT
  /\ AboutMember(log, 2) = <<LogEntry("", 2, OP_RESET, SUCCESS),
                             LogEntry("2", 2, OP_CHECK_OUT, SUCCESS)>>

----------------------------------------------------------------------------
(* The log against the members *)

\* Check In / Success entries minus Check Out / Success entries of member m
OpenSessions(m) ==
  Cardinality({i \in 1..Len(log) :
                 log[i].user = m /\ log[i].operation = OP_CHECK_IN
                                /\ log[i].status = SUCCESS})
    - Cardinality({i \in 1..Len(log) :
                     log[i].user = m /\ log[i].operation = OP_CHECK_OUT
                                    /\ log[i].status = SUCCESS})

\* no request is between its first and its last statement
Quiescent ==
  \A p \in Procs : req[p].pc \in {"idle", "done"}

\* C35: from members that are all checked out and an empty log, with no
\* storage fault, after any interleaving of single transitions, bulk
\* transitions and resets (examined once every request has been answered)
\* the Check In / Success entries of each member outnumber its Check Out /
\* Success entries by 1 if the member is checked in and by 0 if it is
\* checked out.
C35_LogMatchesMembers ==
  Quiescent
    => \A m \in UserIds :
         OpenSessions(m) = IF users[m].checked_in THEN 1 ELSE 0

----------------------------------------------------------------------------
(* Deactivation beside a single transition *)

\* C36: a single transition never writes a member that is inactive when
\* the transition commits: if the member is deactivated after the lookup
\* and before the row lock is taken, its checked_in, total_seconds, last_in
\* and last_out stay as they were.
C36_InactiveAtCommitUntouched ==
  [][\A p \in Procs :
       (CommitStep(p) /\ ~users[req[p].uid].active)
         => LET m == req[p].uid
            IN /\ users'[m].checked_in = users[m].checked_in
               /\ users'[m].total = users[m].total
               /\ users'[m].last_in = users[m].last_in
               /\ users'[m].last_out = users[m].last_out]_vars

----------------------------------------------------------------------------
(* The count returned beside other dispatches *)

\* C37: for every interleaving of concurrent dispatches, the count a single
\* transition is about to return when it commits (count2, returned if the
\* transition succeeds) is the number of members that are active and
\* checked in right after the commit.
C37_CountMatchesStore ==
  [][\A p \in Procs :
       CommitStep(p) => req[p].count2 = CheckedInCount(users')]_vars

----------------------------------------------------------------------------
(* The bulk management command *)

\* C38: the bulk engine changes members only when it is invoked with one of
\* the two bulk tokens: invoked through the management command with any
\* other token, it changes no member and appends no log entry.
C38_OnlyBulkTokensMutate ==
  [][\A tok \in CommandTokens \ {"+404", "-404"} :
       AnsweredStep("p2", tok) => users' = users /\ log' = log]_vars

----------------------------------------------------------------------------
(* Reserved tokens and the numbers they hold *)

\* C39: the reserved tokens are recognised before the input is parsed as a
\* number: '+00' and '+01' are answered with a redirect and touch nothing
\* (member 1 exists, member 0 does not); '+404' and '-404' run the bulk
\* path; none of the four looks up a member or logs User Not Found. The
\* unsigned forms are member ids: '1' looks up member 1, and '0' and '404',
\* which no member has, are logged as User Not Found.
C39_ReservedTokensFirst ==
  [][\A p \in Procs :
       /\ \A s \in {"+00", "+01", "+404", "-404"} :
            ReceivedStep(p, s)
              => /\ req'[p].pc = "done"
                 /\ req'[p].uid = NoUser
                 /\ \A i \in 1..Len(Appended) :
                      /\ Appended[i].status = "Success"
                      /\ Appended[i].entered # s
                 /\ s \in {"+00", "+01"}
                      => /\ users' = users
                         /\ log' = log
                         /\ req'[p].resp.http = 302
       /\ ReceivedStep(p, "1")
            => /\ req'[p].uid = 1
               /\ req'[p].user = users[1]
       /\ \A s \in {"0", "404"} :
            (ReceivedStep(p, s) /\ ~Faulted(req'[p].resp))
              => /\ users' = users
                 /\ log' = Append(log, LogEntry(s, NoUser, "None",
                                                "User Not Found"))]_vars

\* C39 witness: '+01' was answered with a redirect while member 1 was
\* checked out, and member 1 is still checked out with nothing logged
\* about it
C39_Witness ==
  /\ req["p1"].pc = "done"
  /\ req["p1"].inp = "+01"
  /\ req["p1"].resp.http = 302
  /\ ~users[1].checked_in
  /\ users[2].checked_in
  /\ \A i \in 1..Len(log) : log[i].user # 1
  /\ Len(log) >= 1

----------------------------------------------------------------------------
(* Frame of the single transition *)

\* C40: a single transition of member m leaves every other member unchanged
\* in all fields; a check-in leaves m's last_out unchanged, and a check-out
\* of a member whose last_in is set leaves m's last_in unchanged.
C40_SingleTransitionFrame ==
  [][\A p \in Procs :
       LET m == req[p].uid
       IN /\ CommitStep(p)
               => /\ \A o \in UserIds \ {m} : users'[o] = users[o]
                  /\ ~users[m].checked_in
                       => users'[m].last_out = users[m].last_out
                  /\ (users[m].checked_in /\ users[m].last_in # NoTime)
                       => users'[m].last_in = users[m].last_in
          /\ (req[p].pc \in {"idle", "atomic", "committed"}
                /\ req'[p].pc # req[p].pc /\ req'[p].uid \in UserIds)
               => users' = users]_vars

\* C40 witness: a member with an earlier check-out has just been checked in
\* again and still has that last_out, while the other member is checked in
\* with its own last_in
C40_Witness ==
  \E p \in Procs, o \in UserIds :
    /\ req[p].pc = "committed"
    /\ req[p].lop = OP_CHECK_IN
    /\ o # req[p].uid
    /\ users[req[p].uid].checked_in
    /\ users[req[p].uid].last_out # NoTime
    /\ users[o].checked_in
    /\ users[o].last_in # req[p].now

====
